---- MODULE Spec2Model ----
(***************************************************************************)
(* Model of checks/libs/wmi/sampler.py: the WMISampler class, its shared   *)
(* connection cache, query construction, result parsing and the            *)
(* current/previous sample double buffer.                                  *)
(*                                                                         *)
(* Text is modelled as a sequence of tokens (a format() call is the        *)
(* concatenation of its pieces).  A Python dict is a set of <<key, value>> *)
(* pairs.  An optional attribute is a sequence of length 0 (None) or 1.    *)
(***************************************************************************)
EXTENDS Integers, Sequences, FiniteSets, TLC

\* ------------------------------------------------------------------ bounds
MaxCalls == 3

Samplers == {1, 2}

\* --------------------------------------------------------- Python values
NoneVal == "<None>"

None == <<>>

Some(x) == <<x>>

\* ----------------------------------------------------------- text helpers
Lower(s) ==
    CASE s \in {"Name", "name", "NAME"} -> "name"
      [] s \in {"FreeMegabytes", "freemegabytes"} -> "freemegabytes"
      [] s = "Timestamp_Sys100NS" -> "timestamp_sys100ns"
      [] s = "Frequency_Sys100NS" -> "frequency_sys100ns"
      [] OTHER -> s

Upper(s) ==
    CASE s \in {"PerfRawData", "perfrawdata"} -> "PERFRAWDATA"
      [] s = "PerfFormattedData" -> "PERFFORMATTEDDATA"
      [] s = "Win32" -> "WIN32"
      [] s = "PerfOS" -> "PERFOS"
      [] s = "PerfDisk" -> "PERFDISK"
      [] s = "System" -> "SYSTEM"
      [] s = "LogicalDisk" -> "LOGICALDISK"
      [] OTHER -> s

UpperText(t) == [i \in 1..Len(t) |-> Upper(t[i])]

\* "_PERFRAWDATA_" in text
ContainsRawMarker(t) ==
    \E i \in 1..(Len(t) - 2) :
        t[i] = "_" /\ t[i + 1] = "PERFRAWDATA" /\ t[i + 2] = "_"

RECURSIVE Join(_, _)
Join(names, sep) ==
    IF Len(names) = 0 THEN <<>>
    ELSE IF Len(names) = 1 THEN <<names[1]>>
    ELSE <<names[1], sep>> \o Join(Tail(names), sep)

Min(a, b) == IF a < b THEN a ELSE b

\* ------------------------------------------------------ CaseInsensitiveDict
DictSet(d, key, value) ==
    {p \in d : p[1] # Lower(key)} \cup {<<Lower(key), value>>}

DictContains(d, key) == \E p \in d : p[1] = Lower(key)

DictGet(d, key) ==
    IF DictContains(d, key)
    THEN (CHOOSE p \in d : p[1] = Lower(key))[2]
    ELSE NoneVal

\* plain dict (exact keys)
PlainSet(d, key, value) == {p \in d : p[1] # key} \cup {<<key, value>>}

PlainContains(d, key) == \E p \in d : p[1] = key

PlainGet(d, key) == (CHOOSE p \in d : p[1] = key)[2]

\* ------------------------------------------------------------- float()
NumericText == {"1536", "19742"}

\* float(value): "ok" with the float, ValueError for non-numeric text,
\* TypeError for None.
Float(value) ==
    IF value \in NumericText THEN [exc |-> "none", val |-> value \o ".0"]
    ELSE IF value = NoneVal THEN [exc |-> "TypeError", val |-> value]
    ELSE [exc |-> "ValueError", val |-> value]

\* ------------------------------------------------------------ inputs
RawClass == <<"Win32", "_", "PerfRawData", "_", "PerfOS", "_", "System">>

FormattedClass ==
    <<"Win32", "_", "PerfFormattedData", "_", "PerfDisk", "_", "LogicalDisk">>

ClassNames == {RawClass, FormattedClass}

PropertyLists == {<<"Name", "FreeMegabytes">>}

F1 == {<<"Name", "_Total">>}

F2 == {<<"DriveType", "3">>}

F3 == {<<"FreeMegabytes", "19742">>}

\* filter lists of every length from 0 to 3
FilterSpecs == {<<>>, <<F1>>, <<F1, F2>>, <<F1, F2, F3>>}

\* results the service may return: rows of properties with qualifiers
Prop(name, value, qualifiers) ==
    [Name |-> name, Value |-> value, Qualifiers |-> qualifiers]

CounterTypeQ == {<<"CounterType", "65536">>, <<"CIMTYPE", "uint64">>}

PlainQ == {<<"CIMTYPE", "string">>}

RowC == <<Prop("Name", "C:", PlainQ), Prop("FreeMegabytes", "19742", CounterTypeQ)>>

RowD == <<Prop("name", "D:", PlainQ)>>

RowNull == <<Prop("Name", "C:", PlainQ), Prop("FreeMegabytes", NoneVal, CounterTypeQ)>>

RawResults == {<<>>, <<RowC>>, <<RowC, RowD>>, <<RowNull>>}

Outcomes ==
    {[kind |-> "connect_error", rows |-> <<>>],
     [kind |-> "query_error", rows |-> <<>>]}
    \cup {[kind |-> "rows", rows |-> r] : r \in RawResults}

\* ------------------------------------------------------------ __init__
WMISampler_init(class_name, property_names, filters, host, namespace, username, password) ==
    LET is_raw_perf_class == ContainsRawMarker(UpperText(class_name))
    IN  [host |-> host,
         namespace |-> namespace,
         username |-> username,
         password |-> password,
         is_raw_perf_class |-> is_raw_perf_class,
         class_name |-> class_name,
         property_names |->
             IF is_raw_perf_class
             THEN property_names \o <<"Timestamp_Sys100NS", "Frequency_Sys100NS">>
             ELSE property_names,
         filters |-> filters,
         property_counter_types |-> None,
         current_sample |-> None,
         previous_sample |-> None]

\* Python truth value of a sample attribute: None and [] are false
Truthy(sample_attr) == sample_attr # None /\ sample_attr[1] # <<>>

\* ------------------------------------------------------- _format_filter
\* fltr.pop() takes the LAST entry, f.popitem() its only pair; the rest of
\* the list is rendered after it.
RECURSIVE build_where_clause_from_head(_)
build_where_clause_from_head(fltr) ==
    LET kv == CHOOSE p \in Head(fltr) : TRUE
        conjunct == <<kv[1], " = '", kv[2], "'">>
    IN  IF Len(fltr) = 1 THEN conjunct
        ELSE conjunct \o <<" AND ">> \o build_where_clause_from_head(Tail(fltr))

RECURSIVE build_where_clause(_)
build_where_clause(fltr) ==
    LET f == fltr[Len(fltr)]
        rest == SubSeq(fltr, 1, Len(fltr) - 1)
        kv == CHOOSE p \in f : TRUE
        conjunct == <<kv[1], " = '", kv[2], "'">>
    IN  IF Len(rest) = 0 THEN conjunct
        ELSE conjunct \o <<" AND ">> \o build_where_clause(rest)

\* the list object is consumed by the pops: whatever was in it, it is
\* empty once build_where_clause has returned
format_filter(filters) ==
    IF Len(filters) = 0
    THEN [text |-> <<>>, filters |-> filters]
    ELSE [text |-> <<" WHERE ">> \o build_where_clause(filters),
          filters |-> <<>>]

\* ------------------------------------------------------ _get_connection
ConnectionKey(self) ==
    self.host \o <<":">> \o self.namespace \o <<":">> \o self.username

\* number of successful ConnectServer calls made so far for a key
Established(connect_calls, key) ==
    IF PlainContains(connect_calls, key) THEN PlainGet(connect_calls, key)
    ELSE 0

get_connection_uncached(w, connect_ok) ==
    LET connection_key == ConnectionKey(w.self)
        n == Established(w.connect_calls, connection_key)
        connection == [key |-> connection_key,
                       serial |-> n + 1,
                       password |-> w.self.password]
    IN  IF connect_ok
        THEN [w |-> [w EXCEPT
                  !.wmi_locators = PlainSet(@, connection_key, "SWbemLocator"),
                  !.wmi_connections = PlainSet(@, connection_key, connection),
                  !.connect_calls = PlainSet(@, connection_key, n + 1)],
              exc |-> "none", connection |-> connection]
        ELSE [w |-> [w EXCEPT
                  !.wmi_locators = PlainSet(@, connection_key, "SWbemLocator")],
              exc |-> "com_error", connection |-> connection]

\* ConnectServer's failure leaves the connection in the cache
get_connection_caching_failure(w, connect_ok) ==
    LET connection_key == ConnectionKey(w.self)
        n == Established(w.connect_calls, connection_key)
        connection == [key |-> connection_key,
                       serial |-> n + 1,
                       password |-> w.self.password]
    IN  IF PlainContains(w.wmi_connections, connection_key)
        THEN [w |-> w, exc |-> "none",
              connection |-> PlainGet(w.wmi_connections, connection_key)]
        ELSE [w |-> [w EXCEPT
                  !.wmi_locators = PlainSet(@, connection_key, "SWbemLocator"),
                  !.wmi_connections = PlainSet(@, connection_key, connection),
                  !.connect_calls = IF connect_ok
                                    THEN PlainSet(@, connection_key, n + 1)
                                    ELSE @],
              exc |-> IF connect_ok THEN "none" ELSE "com_error",
              connection |-> connection]

\* w: the sampler (self), the two class-level caches and the count of
\* connections established per key.  connect_ok: whether ConnectServer succeeds
\* when it is called.
get_connection(w, connect_ok) ==
    LET connection_key == ConnectionKey(w.self)
        n == Established(w.connect_calls, connection_key)
        locator == "SWbemLocator"
        connection == [key |-> connection_key,
                       serial |-> n + 1,
                       password |-> w.self.password]
    IN  IF PlainContains(w.wmi_connections, connection_key)
        THEN [w |-> w, exc |-> "none",
              connection |-> PlainGet(w.wmi_connections, connection_key)]
        ELSE IF connect_ok
        THEN [w |-> [w EXCEPT
                  !.wmi_locators = PlainSet(@, connection_key, locator),
                  !.wmi_connections = PlainSet(@, connection_key, connection),
                  !.connect_calls = PlainSet(@, connection_key, n + 1)],
              exc |-> "none", connection |-> connection]
        ELSE [w |-> [w EXCEPT
                  !.wmi_locators = PlainSet(@, connection_key, locator)],
              exc |-> "com_error", connection |-> connection]

\* ------------------------------------------------------- _parse_results
\* The(S) for a one-element set S is its element: The({e(x) : x \in {v}})
\* is e with the local x bound to the value v.
The(S) == CHOOSE x \in S : TRUE

initial_item_empty(property_names) == {}

\* item = CaseInsensitiveDict(); item[prop_name] = None for every name
RECURSIVE initial_item(_)
initial_item(property_names) ==
    IF Len(property_names) = 0 THEN {}
    ELSE DictSet(initial_item(SubSeq(property_names, 1, Len(property_names) - 1)),
                 property_names[Len(property_names)], NoneVal)

ReadsOf(qualifier_reads, name) ==
    IF DictContains(qualifier_reads, name) THEN DictGet(qualifier_reads, name)
    ELSE 0

should_get_qualifier_type_always(includes_qualifiers, property_counter_types, name) ==
    ~DictContains(property_counter_types, name)

should_get_qualifier_type(includes_qualifiers, property_counter_types, name) ==
    includes_qualifiers /\ ~DictContains(property_counter_types, name)

\* st: the item being built, the sampler's property_counter_types, the
\* count of Qualifiers_ reads per property, the exception raised so far.
\* Reads the qualifiers of wmi_property and caches its CounterType.
cache_counter_type(st, wmi_property) ==
    [st EXCEPT
        !.property_counter_types =
            IF PlainContains(wmi_property.Qualifiers, "CounterType")
            THEN DictSet(@, wmi_property.Name,
                         PlainGet(wmi_property.Qualifiers, "CounterType"))
            ELSE @,
        !.qualifier_reads =
            DictSet(@, wmi_property.Name, ReadsOf(@, wmi_property.Name) + 1)]

\* item[wmi_property.Name] = float(Value), or Value on ValueError
store_value(st, wmi_property, fl) ==
    IF fl.exc = "TypeError" THEN [st EXCEPT !.exc = "TypeError"]
    ELSE [st EXCEPT !.item = DictSet(@, wmi_property.Name, fl.val)]

\* one wmi_property of a row
parse_property(st, wmi_property, includes_qualifiers) ==
    The({store_value(st1, wmi_property, fl) :
            st1 \in {IF should_get_qualifier_type(includes_qualifiers,
                            st.property_counter_types, wmi_property.Name)
                     THEN cache_counter_type(st, wmi_property)
                     ELSE st},
            fl \in {Float(wmi_property.Value)}})

RECURSIVE parse_row(_, _, _)
parse_row(st, properties, includes_qualifiers) ==
    IF Len(properties) = 0 \/ st.exc # "none" THEN st
    ELSE The({parse_row(st1, Tail(properties), includes_qualifiers) :
                st1 \in {parse_property(st, Head(properties),
                                        includes_qualifiers)}})

\* results.append(item), unless the row raised
append_item(acc, st) ==
    [results |-> IF st.exc = "none" THEN Append(acc.results, st.item)
                 ELSE acc.results,
     property_counter_types |-> st.property_counter_types,
     qualifier_reads |-> st.qualifier_reads,
     exc |-> st.exc]

\* acc: results so far, property_counter_types, qualifier_reads, exc
RECURSIVE parse_rows(_, _, _, _)
parse_rows(acc, raw_results, property_names, includes_qualifiers) ==
    IF Len(raw_results) = 0 \/ acc.exc # "none" THEN acc
    ELSE The({parse_rows(acc1, Tail(raw_results), property_names,
                         includes_qualifiers) :
                acc1 \in {The({append_item(acc, st) :
                    st \in {parse_row(
                        [item |-> initial_item(property_names),
                         property_counter_types |-> acc.property_counter_types,
                         qualifier_reads |-> acc.qualifier_reads,
                         exc |-> "none"],
                        Head(raw_results), includes_qualifiers)}})}})

parse_results(self, qualifier_reads, raw_results, includes_qualifiers) ==
    parse_rows([results |-> <<>>,
                property_counter_types |-> self.property_counter_types[1],
                qualifier_reads |-> qualifier_reads,
                exc |-> "none"],
               raw_results, self.property_names, includes_qualifiers)

\* --------------------------------------------------------------- _query
flag_return_immediately == 16

flag_forward_only == 32

flag_use_amended_qualifiers == 131072

query_property_names_extended(self) ==
    IF self.is_raw_perf_class
    THEN self.property_names \o <<"Timestamp_Sys100NS", "Frequency_Sys100NS">>
    ELSE self.property_names

\* the property list a query selects
query_property_names(self) == self.property_names

failed_results_stale(self) ==
    IF self.current_sample = None THEN <<>> ELSE self.current_sample[1]

\* what _query returns after a com_error
failed_results(self) == <<>>

\* the service's answer o is usable only where the code asks for it:
\* ConnectServer can fail only when it is called (no cached connection)
Feasible(w, o) ==
    o.kind = "connect_error" =>
        ~PlainContains(w.wmi_connections, ConnectionKey(w.self))

\* the query text; ff is _format_filter's result
wql_text(self, ff) ==
    <<"Select ">> \o Join(query_property_names(self), ",")
    \o <<" from ">> \o self.class_name \o ff.text

\* Bits of query_flags are kept as a set (the three flags are distinct
\* bits, | is their union).
query_flags(includes_qualifiers) ==
    {flag_return_immediately, flag_forward_only}
    \cup (IF includes_qualifiers THEN {flag_use_amended_qualifiers} ELSE {})

\* the sampler when ExecQuery is reached: its filter list consumed by
\* _format_filter, property_counter_types created for the first query
before_exec(self, ff) ==
    [self EXCEPT
        !.filters = ff.filters,
        !.property_counter_types = IF @ = None THEN Some({}) ELSE @]

query_failed_silent(w, self, entry, connection, outcome) ==
    [w |-> w,
     exc |-> "none",
     results |-> failed_results(self),
     entry |-> entry @@ [connection |-> connection,
                         outcome |-> outcome,
                         results |-> failed_results(self)]]

\* except pywintypes.com_error: one warning, results = []
query_failed(w, self, entry, connection, outcome) ==
    [w |-> [w EXCEPT !.warnings = @ + 1],
     exc |-> "none",
     results |-> failed_results(self),
     entry |-> entry @@ [connection |-> connection,
                         outcome |-> outcome,
                         results |-> failed_results(self)]]

\* _parse_results has run on the rows ExecQuery returned
query_parsed(w, entry, connection, pr) ==
    [w |-> [w EXCEPT
               !.self.property_counter_types = Some(pr.property_counter_types),
               !.qualifier_reads = pr.qualifier_reads],
     exc |-> pr.exc,
     results |-> pr.results,
     entry |-> entry @@ [connection |-> Some(connection),
                         outcome |-> IF pr.exc = "none" THEN "rows" ELSE pr.exc,
                         results |-> pr.results]]

\* the try block; gc is _get_connection's result, self the sampler as
\* _query was entered
query_try(self, gc, o, entry) ==
    IF gc.exc = "com_error"
    THEN query_failed(gc.w, self, entry, None, "connect_error")
    ELSE IF o.kind = "query_error"
    THEN query_failed(gc.w, self, entry, Some(gc.connection), "query_error")
    ELSE The({query_parsed(gc.w, entry, gc.connection, pr) :
                pr \in {parse_results(gc.w.self, gc.w.qualifier_reads, o.rows,
                                      entry.includes_qualifiers)}})

\* w also carries the Qualifiers_ read counts of this sampler and the
\* number of warnings logged; o is the service's answer.
query_with(w, o, ff) ==
    The({query_try(w.self, gc, o, entry) :
            gc \in {get_connection([w EXCEPT !.self = before_exec(@, ff)],
                                   o.kind # "connect_error")},
            entry \in {[wql |-> wql_text(w.self, ff),
                        query_flags |->
                            query_flags(w.self.property_counter_types = None),
                        includes_qualifiers |->
                            w.self.property_counter_types = None,
                        raw_results |-> o.rows]}})

query(w, o) ==
    The({query_with(w, o, ff) : ff \in {format_filter(w.self.filters)}})

\* --------------------------------------------------------------- sample
needs_initial_sample_never(self) == FALSE

needs_initial_sample(self) ==
    self.is_raw_perf_class /\ ~Truthy(self.previous_sample)

\* self.current_sample = self._query(), q being what _query did; an
\* exception leaves the assignment undone
assign_current(q) ==
    IF q.exc # "none" THEN q.w
    ELSE [q.w EXCEPT !.self.current_sample = Some(q.results)]

\* lines 82-84: the initial query of a raw class, answered by o1
initial_sample(w0, o1) ==
    IF needs_initial_sample(w0.self)
    THEN The({[w |-> assign_current(q), exc |-> q.exc, trace |-> <<q.entry>>,
               feasible |-> Feasible(w0, o1)] :
                q \in {query(w0, o1)}})
    ELSE [w |-> w0, exc |-> "none", trace |-> <<>>, feasible |-> TRUE]

\* lines 85-87 after the initial part p: shift, then the query answered
\* by o2
shift_and_query(p, w2, o2) ==
    The({[w |-> assign_current(q), exc |-> q.exc,
          trace |-> p.trace \o <<q.entry>>,
          feasible |-> p.feasible /\ Feasible(w2, o2)] :
            q \in {query(w2, o2)}})

sample_after(p, o2) ==
    IF p.exc # "none" THEN p
    ELSE The({shift_and_query(p, w2, o2) :
                w2 \in {[p.w EXCEPT !.self.previous_sample =
                                        p.w.self.current_sample]}})

\* o1 answers the initial (bootstrap) query when there is one, o2 the
\* query that follows.  An exception leaves sample() at the failing line.
sample(w0, o1, o2) ==
    The({sample_after(p, o2) : p \in {initial_sample(w0, o1)}})

\* ------------------------------------------------------ __len__, __iter__
\* len(self.current_sample); TypeError on None
len(self) ==
    IF self.current_sample = None THEN [exc |-> "TypeError", val |-> 0]
    ELSE [exc |-> "none", val |-> Len(self.current_sample[1])]

\* the Items a full iteration yields.  For a raw class the loop variable
\* that is yielded is bound to the FIRST sequence of izip, which is
\* previous_sample; izip stops with the shorter sequence.
iter(self) ==
    IF self.is_raw_perf_class
    THEN IF self.previous_sample = None \/ self.current_sample = None
         THEN [exc |-> "TypeError", items |-> <<>>]
         ELSE [exc |-> "none",
               items |-> SubSeq(self.previous_sample[1], 1,
                                Min(Len(self.previous_sample[1]),
                                    Len(self.current_sample[1])))]
    ELSE IF self.current_sample = None
         THEN [exc |-> "TypeError", items |-> <<>>]
         ELSE [exc |-> "none", items |-> self.current_sample[1]]

\* ---------------------------------------------------------------- state
VARIABLES
    sampler,          \* sampler[s]: the attributes of WMISampler instance s
    wmi_locators,     \* WMISampler._wmi_locators (class attribute)
    wmi_connections,  \* WMISampler._wmi_connections (class attribute)
    connect_calls,    \* per key: ConnectServer calls that succeeded
    qualifier_reads,  \* qualifier_reads[s]: Qualifiers_ reads per property
    calls,            \* calls[s]: sample() calls made on s
    trace,            \* trace[s]: the queries of the last sample() call on s
    raised,           \* raised[s]: exception the last sample() call raised
    warnings,         \* warnings[s]: warnings logged by the last sample() call
    constructed,      \* constructed[s]: the attributes right after __init__
    thread            \* thread[s]: where the thread running s stands in
                      \* _get_connection, and the connection it returned

vars == <<sampler, wmi_locators, wmi_connections, connect_calls,
          qualifier_reads, calls, trace, raised, warnings, constructed,
          thread>>

Target1 ==
    [host |-> <<"myhost">>, namespace |-> <<"some/namespace">>,
     username |-> <<"datadog">>, password |-> "datadog"]

\* same (host, namespace, username) as Target1, another password
Target1b == [Target1 EXCEPT !.password = "other"]

Target2 ==
    [host |-> <<"localhost">>, namespace |-> <<"root\\cimv2">>,
     username |-> <<>>, password |-> ""]

New(c, p, f, t) ==
    WMISampler_init(c, p, f, t.host, t.namespace, t.username, t.password)

\* sampler 1: either class family, any filter spec; sampler 2: a
\* formatted class sharing sampler 1's connection key or not
Configs(s) ==
    IF s = 1
    THEN {New(c, p, f, Target1) :
             c \in ClassNames, p \in PropertyLists, f \in FilterSpecs}
    ELSE {New(FormattedClass, p, <<>>, t) :
             p \in PropertyLists, t \in {Target1b, Target2}}

Init ==
    /\ sampler \in {f \in [Samplers -> UNION {Configs(s) : s \in Samplers}] :
                       \A s \in Samplers : f[s] \in Configs(s)}
    /\ constructed = sampler
    /\ wmi_locators = {}
    /\ wmi_connections = {}
    /\ connect_calls = {}
    /\ qualifier_reads = [s \in Samplers |-> {}]
    /\ calls = [s \in Samplers |-> 0]
    /\ trace = [s \in Samplers |-> <<>>]
    /\ raised = [s \in Samplers |-> "none"]
    /\ warnings = [s \in Samplers |-> 0]
    /\ thread = [s \in Samplers |-> [pc |-> "idle", connection |-> None]]

RECURSIVE Sum(_, _)
Sum(f, S) ==
    IF S = {} THEN 0
    ELSE LET x == CHOOSE y \in S : TRUE IN f[x] + Sum(f, S \ {x})

World(s) ==
    [self |-> sampler[s],
     wmi_locators |-> wmi_locators,
     wmi_connections |-> wmi_connections,
     connect_calls |-> connect_calls,
     qualifier_reads |-> qualifier_reads[s],
     warnings |-> 0]

\* the answers to the initial query: one fixed, unused, answer when
\* sample() makes no initial query
InitialOutcomes(self) ==
    IF needs_initial_sample(self) THEN Outcomes
    ELSE {[kind |-> "rows", rows |-> <<>>]}

\* one call of sampler s's sample()
Sample(s) ==
    /\ Sum(calls, Samplers) < MaxCalls
    /\ \E o1 \in InitialOutcomes(sampler[s]), o2 \in Outcomes :
         \E r \in {sample(World(s), o1, o2)} :
             /\ r.feasible
             /\ sampler' = [sampler EXCEPT ![s] = r.w.self]
             /\ wmi_locators' = r.w.wmi_locators
             /\ wmi_connections' = r.w.wmi_connections
             /\ connect_calls' = r.w.connect_calls
             /\ qualifier_reads' = [qualifier_reads EXCEPT ![s] = r.w.qualifier_reads]
             /\ calls' = [calls EXCEPT ![s] = @ + 1]
             /\ trace' = [trace EXCEPT ![s] = r.trace]
             /\ raised' = [raised EXCEPT ![s] = r.exc]
             /\ warnings' = [warnings EXCEPT ![s] = r.w.warnings]
             /\ UNCHANGED <<constructed, thread>>

Next == \E s \in Samplers : Sample(s)

Spec == Init /\ [][Next]_vars

\* ------------------------------------ _get_connection, one statement
\* at a time: the samplers' sample() calls run on threads of their own
\* and interleave between the statements of _get_connection; nothing in
\* the class guards _wmi_connections.
samplerState == <<sampler, qualifier_reads, calls, trace, raised, warnings,
                  constructed>>

\* line 146: if connection_key in self._wmi_connections
Lookup(s) ==
    /\ thread[s].pc = "idle"
    /\ thread' = [thread EXCEPT ![s] =
           IF PlainContains(wmi_connections, ConnectionKey(sampler[s]))
           THEN [pc |-> "returned",
                 connection |-> Some(PlainGet(wmi_connections,
                                              ConnectionKey(sampler[s])))]
           ELSE [pc |-> "missed", connection |-> None]]
    /\ UNCHANGED <<samplerState, wmi_locators, wmi_connections, connect_calls>>

\* lines 166-167: locator = Dispatch(...); _wmi_locators[key] = locator
Locate(s) ==
    /\ thread[s].pc = "missed"
    /\ wmi_locators' = PlainSet(wmi_locators, ConnectionKey(sampler[s]),
                                "SWbemLocator")
    /\ thread' = [thread EXCEPT ![s].pc = "located"]
    /\ UNCHANGED <<samplerState, wmi_connections, connect_calls>>

\* lines 169-172: connection = locator.ConnectServer(...), which may
\* raise; _wmi_connections[key] = connection; return connection
ConnectServer(s) ==
    /\ thread[s].pc = "located"
    /\ \E connect_ok \in BOOLEAN :
         \E connection \in
               {[key |-> ConnectionKey(sampler[s]),
                 serial |-> Established(connect_calls,
                                        ConnectionKey(sampler[s])) + 1,
                 password |-> sampler[s].password]} :
            IF connect_ok
            THEN /\ wmi_connections' =
                        PlainSet(wmi_connections, connection.key, connection)
                 /\ connect_calls' =
                        PlainSet(connect_calls, connection.key,
                                 connection.serial)
                 /\ thread' = [thread EXCEPT ![s] =
                        [pc |-> "returned", connection |-> Some(connection)]]
            ELSE /\ thread' = [thread EXCEPT ![s] =
                        [pc |-> "raised", connection |-> None]]
                 /\ UNCHANGED <<wmi_connections, connect_calls>>
    /\ UNCHANGED <<samplerState, wmi_locators>>

\* the thread's next query enters _get_connection again
Reenter(s) ==
    /\ thread[s].pc \in {"returned", "raised"}
    /\ thread' = [thread EXCEPT ![s] = [pc |-> "idle", connection |-> None]]
    /\ UNCHANGED <<samplerState, wmi_locators, wmi_connections, connect_calls>>

NextThreads ==
    \E s \in Samplers :
        Lookup(s) \/ Locate(s) \/ ConnectServer(s) \/ Reenter(s)

SpecThreads == Init /\ [][NextThreads]_vars

\* ================================================================ claims
Called(s) == trace[s] # <<>>

LastQuery(s) == trace[s][Len(trace[s])]

\* the text of a query after "Select ... from <class_name>"
WhereText(s, entry) ==
    LET prefix == <<"Select ">> \o Join(constructed[s].property_names, ",")
                  \o <<" from ">> \o constructed[s].class_name
    IN  SubSeq(entry.wql, Len(prefix) + 1, Len(entry.wql))

\* the names between "Select " and " from "
RECURSIVE SelectedNames(_)
SelectedNames(wql) ==
    IF Len(wql) = 0 \/ Head(wql) = " from " THEN <<>>
    ELSE IF Head(wql) \in {"Select ", ","} THEN SelectedNames(Tail(wql))
    ELSE <<Head(wql)>> \o SelectedNames(Tail(wql))

Count(seq, x) == Cardinality({i \in 1..Len(seq) : seq[i] = x})

Conjunct(f) ==
    LET kv == CHOOSE p \in f : TRUE IN <<kv[1], " = '", kv[2], "'">>

\* "f1 AND f2 AND ... AND fn" for the list <<f1, ..., fn>>
RECURSIVE Conjunction(_)
Conjunction(fs) ==
    IF Len(fs) = 1 THEN Conjunct(fs[1])
    ELSE Conjunct(fs[1]) \o <<" AND ">> \o Conjunction(Tail(fs))

Reverse(fs) == [i \in 1..Len(fs) |-> fs[Len(fs) + 1 - i]]

C2_IterYieldsCurrent ==
    \A s \in Samplers :
        (Called(s) /\ sampler[s].current_sample # None) =>
            iter(sampler[s]) =
                [exc |-> "none", items |-> sampler[s].current_sample[1]]

\* C3: the first sample() call of a raw-class sampler issues exactly two
\* queries and returns with previous_sample set to the result of the first
\* (bootstrap) query and current_sample set to the result of the second.
C3_FirstRawSample ==
    \A s \in Samplers :
        (sampler[s].is_raw_perf_class /\ calls[s] = 1 /\ raised[s] = "none") =>
            /\ Len(trace[s]) = 2
            /\ sampler[s].previous_sample = Some(trace[s][1].results)
            /\ sampler[s].current_sample = Some(trace[s][2].results)

C3_Witness ==
    \E s \in Samplers :
        /\ sampler[s].is_raw_perf_class /\ calls[s] = 1 /\ raised[s] = "none"
        /\ Len(trace[s]) = 2
        /\ Len(trace[s][1].results) = 2 /\ Len(trace[s][2].results) = 1
        /\ sampler[s].previous_sample = Some(trace[s][1].results)
        /\ sampler[s].current_sample = Some(trace[s][2].results)

\* C4: when the query of a sample() call fails with a service error,
\* sample() returns without raising, current_sample is the empty list and
\* iterating the sampler yields zero items.
C4_QueryFailureEmptySample ==
    \A s \in Samplers :
        (Called(s) /\ LastQuery(s).outcome = "query_error") =>
            /\ raised[s] = "none"
            /\ sampler[s].current_sample = Some(<<>>)
            /\ iter(sampler[s]) = [exc |-> "none", items |-> <<>>]

C4_Witness ==
    \E s \in Samplers :
        /\ calls[s] >= 2
        /\ LastQuery(s).outcome = "query_error"
        /\ Truthy(sampler[s].previous_sample)
        /\ sampler[s].current_sample = Some(<<>>)
        /\ iter(sampler[s]).items = <<>>

\* C5: over the lifetime of a sampler the qualifiers of any property are
\* read at most once, properties without a CounterType qualifier included.
C5_QualifiersReadAtMostOnce ==
    \A s \in Samplers : \A p \in qualifier_reads[s] : p[2] <= 1

\* C6: every query of a raw-class sampler selects Timestamp_Sys100NS and
\* Frequency_Sys100NS exactly once each, however many sample() calls were
\* made; a query of a formatted-class sampler selects neither.
C6_MetadataPropertiesOnce ==
    \A s \in Samplers : \A i \in 1..Len(trace[s]) :
        LET names == SelectedNames(trace[s][i].wql)
            n == IF sampler[s].is_raw_perf_class THEN 1 ELSE 0
        IN  /\ Count(names, "Timestamp_Sys100NS") = n
            /\ Count(names, "Frequency_Sys100NS") = n

C6_Witness ==
    \E s \in Samplers :
        /\ sampler[s].is_raw_perf_class /\ calls[s] >= 2
        /\ Count(SelectedNames(LastQuery(s).wql), "Timestamp_Sys100NS") = 1
        /\ Count(SelectedNames(LastQuery(s).wql), "Frequency_Sys100NS") = 1

\* the connection a sampler got in its last query, where it got one
UsedConnections(s) ==
    {trace[s][i].connection[1] :
        i \in {j \in 1..Len(trace[s]) : trace[s][j].connection # None}}

C7_State ==
    /\ \A p \in connect_calls : p[2] <= 1
    /\ \A s \in Samplers : \A c \in UsedConnections(s) :
           /\ PlainContains(wmi_connections, ConnectionKey(sampler[s]))
           /\ c = PlainGet(wmi_connections, ConnectionKey(sampler[s]))
           /\ Established(connect_calls, ConnectionKey(sampler[s])) = 1

\* C7: for samplers sharing (host, namespace, username) the connection is
\* established once, every lookup returns that same connection object
\* whatever the sampler's password, and a cached connection is never
\* evicted or replaced.
C7_ConnectionSharedAndKept ==
    [][C7_State' /\ \A p \in wmi_connections : p \in wmi_connections']_vars

C7_Witness ==
    /\ ConnectionKey(sampler[1]) = ConnectionKey(sampler[2])
    /\ sampler[1].password # sampler[2].password
    /\ UsedConnections(1) # {} /\ UsedConnections(1) = UsedConnections(2)
    /\ Established(connect_calls, ConnectionKey(sampler[1])) = 1

\* C8: when establishing the connection fails during sample(), sample()
\* raises to its caller.
C8_ConnectFailureSurfaces ==
    \A s \in Samplers :
        (\E i \in 1..Len(trace[s]) : trace[s][i].outcome = "connect_error") =>
            raised[s] # "none"

\* C9: sample() leaves class_name, property_names and filters as they
\* were right after construction.
C9_ConfigurationUnchanged ==
    \A s \in Samplers :
        /\ sampler[s].class_name = constructed[s].class_name
        /\ sampler[s].property_names = constructed[s].property_names
        /\ sampler[s].filters = constructed[s].filters

Returned(row, name) ==
    \E i \in 1..Len(row) : Lower(row[i].Name) = Lower(name)

CaseVariants(name) == {name, Lower(name)}

\* C10: every Item of every query result holds every property name of the
\* sampler's property list, whatever the case it is looked up in, and holds
\* None for each declared property the service row did not return.
C10_DeclaredPropertiesPresent ==
    \A s \in Samplers : \A q \in 1..Len(trace[s]) :
        \A i \in 1..Len(trace[s][q].results) :
            \A k \in 1..Len(sampler[s].property_names) :
                LET item == trace[s][q].results[i]
                    row == trace[s][q].raw_results[i]
                    name == sampler[s].property_names[k]
                IN  /\ \A v \in CaseVariants(name) : DictContains(item, v)
                    /\ ~Returned(row, name) => DictGet(item, name) = NoneVal

C10_Witness ==
    \E s \in Samplers :
        /\ Called(s) /\ LastQuery(s).raw_results = <<RowC, RowD>>
        /\ sampler[s].current_sample # None
        /\ Len(sampler[s].current_sample[1]) = 2
        /\ DictContains(sampler[s].current_sample[1][2], "FreeMegabytes")
        /\ DictGet(sampler[s].current_sample[1][2], "FreeMegabytes") = NoneVal
        /\ DictGet(sampler[s].current_sample[1][2], "Name") = "D:"

\* the value parsing is to store for a returned value
Coerced(value) == IF value \in NumericText THEN value \o ".0" ELSE value

\* C11: for every value a returned property carries (numeric text, other
\* text, None) the Item holds the float when the value is numeric and the
\* original value otherwise, and no sample() call raises because of a
\* value that cannot be coerced.
C11_CoercionNeverRaises ==
    \A s \in Samplers :
        /\ raised[s] = "none"
        /\ \A q \in 1..Len(trace[s]) : \A i \in 1..Len(trace[s][q].results) :
               \A k \in 1..Len(trace[s][q].raw_results[i]) :
                   LET wmi_property == trace[s][q].raw_results[i][k]
                   IN  DictGet(trace[s][q].results[i], wmi_property.Name) =
                           Coerced(wmi_property.Value)

\* the failed queries (connection or query error) of the last sample()
\* call on s
FailedQueries(s) ==
    {q \in 1..Len(trace[s]) :
        trace[s][q].outcome \in {"connect_error", "query_error"}}

\* C12 (as claimed): a sample() call during which the service rejects the
\* query with a transport error logs exactly one warning, for formatted
\* and raw classes, a raw class's first call included.
C12_OneWarningPerCall ==
    \A s \in Samplers :
        (\E q \in 1..Len(trace[s]) : trace[s][q].outcome = "query_error") =>
            warnings[s] = 1

\* C12 (amended): a sample() call logs exactly one warning per query of
\* the call that fails: one when its only query fails, two when a raw
\* class's initial query and the query after it both fail.
C12_OneWarningPerFailedQuery ==
    \A s \in Samplers : warnings[s] = Cardinality(FailedQueries(s))

C12_Witness ==
    \E s \in Samplers :
        /\ sampler[s].is_raw_perf_class /\ calls[s] = 1
        /\ Len(trace[s]) = 2
        /\ trace[s][1].outcome = "query_error"
        /\ trace[s][2].outcome = "query_error"
        /\ warnings[s] = 2

\* C13: when samplers sharing (host, namespace, username) run on
\* different threads while no connection is cached for the key, at most
\* one connection is established for the key and the samplers end up
\* with the same connection object.
C13_OneConnectionUnderThreads ==
    /\ \A p \in connect_calls : p[2] <= 1
    /\ \A s, t \in Samplers :
          (/\ ConnectionKey(sampler[s]) = ConnectionKey(sampler[t])
           /\ thread[s].pc = "returned" /\ thread[t].pc = "returned") =>
              thread[s].connection = thread[t].connection

\* the query text built from a sampler's configuration as constructed
ConstructedQuery(s) ==
    wql_text(constructed[s], format_filter(constructed[s].filters))

\* C14: every query a sampler issues (initial query, first query after
\* it, every later one) is the same query string, built from the
\* configuration the sampler was constructed with: with the WHERE clause
\* of a non-empty filter list, with no WHERE clause for an empty one.
C14_SameQueryEveryTime ==
    \A s \in Samplers : \A q \in 1..Len(trace[s]) :
        /\ trace[s][q].wql = ConstructedQuery(s)
        /\ (Len(constructed[s].filters) = 0) =
               (WhereText(s, trace[s][q]) = <<>>)

\* s makes a sample() call in this step
Samples(s) == calls'[s] = calls[s] + 1

\* C15: every sample() call on a sampler that has completed a sample()
\* call before leaves previous_sample equal to current_sample as it was
\* right before the call, for both class families and whatever the
\* earlier queries returned.
C15_PreviousIsFormerCurrent ==
    [][\A s \in Samplers :
          (/\ Samples(s) /\ calls[s] >= 1
           /\ raised[s] = "none" /\ raised'[s] = "none") =>
              sampler'[s].previous_sample = sampler[s].current_sample]_vars

\* C16: a raw-class sampler issues exactly one query in every sample()
\* call after its first, also when an earlier query failed or returned no
\* rows; a formatted-class sampler issues exactly one query in every call.
C16_OneQueryAfterFirstCall ==
    \A s \in Samplers :
        (/\ Called(s) /\ raised[s] = "none"
         /\ (~sampler[s].is_raw_perf_class \/ calls[s] >= 2)) =>
            Len(trace[s]) = 1

\* the rows of a raw result that return the property with the
\* (lower-cased) name
RowsReturning(raw_results, name) ==
    {i \in 1..Len(raw_results) :
        \E k \in 1..Len(raw_results[i]) :
            Lower(raw_results[i][k].Name) = name}

C17_Flags ==
    \A s \in Samplers : \A q \in 1..Len(trace[s]) :
        /\ {flag_return_immediately, flag_forward_only}
               \subseteq trace[s][q].query_flags
        /\ (flag_use_amended_qualifiers \in trace[s][q].query_flags)
               = (calls[s] = 1 /\ q = 1)
        /\ trace[s][q].includes_qualifiers = (calls[s] = 1 /\ q = 1)

\* qualifiers are read while the rows of the first query are parsed only
C17_Reads ==
    \A s \in Samplers :
        calls[s] = 1 =>
            \A p \in qualifier_reads[s] :
                p[2] <= Cardinality(RowsReturning(trace[s][1].raw_results, p[1]))

\* C17: only the first query a sampler ever issues carries the
\* include-qualifiers flag and reads qualifiers; every later query carries
\* the return-immediately and forward-only flags only, and after the first
\* sample() call the counter-type cache is never modified and no
\* qualifier is read.
C17_QualifiersOnFirstQueryOnly ==
    [][/\ C17_Flags' /\ C17_Reads'
       /\ \A s \in Samplers :
             calls[s] >= 1 =>
                 /\ sampler'[s].property_counter_types =
                        sampler[s].property_counter_types
                 /\ qualifier_reads'[s] = qualifier_reads[s]]_vars

C17_Witness ==
    \E s \in Samplers :
        /\ calls[s] >= 2
        /\ LastQuery(s).outcome = "rows"
        /\ LastQuery(s).raw_results = <<RowC, RowD>>
        /\ LastQuery(s).query_flags = {flag_return_immediately, flag_forward_only}
        /\ sampler[s].property_counter_types = Some({})

\* the key of sampler s has no connection in the class-level cache
NotConnected(s) ==
    ~PlainContains(wmi_connections, ConnectionKey(sampler[s]))

\* a sample() call on a sampler with the key of s ended in a failed
\* ConnectServer and no connection was established for the key since
AfterFailedConnect(s) ==
    /\ NotConnected(s)
    /\ \E t \in Samplers :
          /\ ConnectionKey(sampler[t]) = ConnectionKey(sampler[s])
          /\ Called(t) /\ LastQuery(t).outcome = "connect_error"

\* the first query of the call that s just made called ConnectServer: it
\* failed there, or it ran on a connection established by this very call
Reconnected(s) ==
    \/ trace'[s][1].outcome = "connect_error"
    \/ /\ trace'[s][1].connection # None
       /\ trace'[s][1].connection[1].serial =
              Established(connect_calls, ConnectionKey(sampler[s])) + 1
       /\ PlainContains(wmi_connections', ConnectionKey(sampler[s]))
       /\ PlainGet(wmi_connections', ConnectionKey(sampler[s])) =
              trace'[s][1].connection[1]

\* C18: a failed connection attempt is not cached.  A sample() call whose
\* last query failed in ConnectServer leaves no connection stored for the
\* key; the next sample() call of any sampler with that key calls
\* ConnectServer again; and when the last query of that call succeeds the
\* current sample holds one item per returned row.
C18_FailedConnectionNotCached ==
    [][\A s \in Samplers : Samples(s) =>
          /\ LastQuery(s)'.outcome = "connect_error" => NotConnected(s)'
          /\ AfterFailedConnect(s) =>
                /\ Reconnected(s)
                /\ LastQuery(s)'.outcome = "rows" =>
                      /\ sampler'[s].current_sample =
                             Some(LastQuery(s)'.results)
                      /\ Len(LastQuery(s)'.results) =
                             Len(LastQuery(s)'.raw_results)]_vars

C18_Witness ==
    \E s, t \in Samplers :
        /\ s # t /\ ConnectionKey(sampler[t]) = ConnectionKey(sampler[s])
        /\ Called(t) /\ LastQuery(t).outcome = "connect_error"
        /\ Called(s) /\ LastQuery(s).outcome = "rows"
        /\ LastQuery(s).raw_results = <<RowC, RowD>>
        /\ Len(sampler[s].current_sample[1]) = 2
        /\ LastQuery(s).connection[1].serial = 1
        /\ ~NotConnected(s)

\* sampler s holds a non-empty current sample that its last query returned
HoldsQueriedSample(s) ==
    /\ Called(s) /\ LastQuery(s).outcome = "rows"
    /\ sampler[s].current_sample = Some(LastQuery(s).results)
    /\ LastQuery(s).results # <<>>

\* the returned properties of a query that carry a CounterType qualifier
CounterProperties(raw_results) ==
    {p \in UNION {{raw_results[i][k] : k \in 1..Len(raw_results[i])} :
                     i \in 1..Len(raw_results)} :
        PlainContains(p.Qualifiers, "CounterType")}

\* C19: whenever a sampler holds a non-empty current sample obtained from
\* a successful query, the counter-type cache holds the counter type of
\* every returned property that carries a CounterType qualifier, also
\* when the sampler's first query failed and a later one succeeded.
C19_CounterTypesOfCurrentSample ==
    \A s \in Samplers : HoldsQueriedSample(s) =>
        \A p \in CounterProperties(LastQuery(s).raw_results) :
            /\ sampler[s].property_counter_types # None
            /\ DictContains(sampler[s].property_counter_types[1], p.Name)
            /\ DictGet(sampler[s].property_counter_types[1], p.Name) =
                   PlainGet(p.Qualifiers, "CounterType")

\* C20: after at least one sample() call that returned, iterating the
\* sampler yields as many Items as len(sampler), the item count of the
\* current sample, for a raw class also when the previous and the current
\* sample differ in their number of rows.
C20_IterationCountIsLen ==
    \A s \in Samplers :
        (calls[s] >= 1 /\ raised[s] = "none") =>
            /\ len(sampler[s]).exc = "none"
            /\ iter(sampler[s]).exc = "none"
            /\ Len(iter(sampler[s]).items) = len(sampler[s]).val

====
